---- MODULE Spec2Model ----
(***************************************************************************)
(* Model of the stdio <-> WebSocket proxy of src/src/index.ts: the         *)
(* connection lifecycle (connect, open, message, close, error), the stdin  *)
(* listener manager, the bounded reconnect scheduler and the signal        *)
(* handlers.  Every callback of the program is one action; callbacks run   *)
(* to completion on the single event-loop thread, so actions are atomic.   *)
(***************************************************************************)
EXTENDS Integers, Sequences, FiniteSets

VARIABLES
  sockets,               \* sockets[i]: readyState of the i-th WebSocket created by connect()
  handshake,             \* the sockets whose opening handshake is neither completed nor reported failed
  errorPending,          \* the sockets that emitted 'error' and have their 'close' still to come
  currentWs,             \* module variable currentWs: 0 is null, else an index of sockets
  reconnectAttempts,     \* module variable reconnectAttempts
  stdinListenersActive,  \* module variable stdinListenersActive
  stdinHandlers,         \* the data/end/error handler sets on process.stdin, each the ws its closures hold
  timers,                \* pending setTimeout(connect, RECONNECT_INTERVAL_MS) timers
  sigHandlers,           \* gracefulShutdown listeners registered on SIGINT (and as many on SIGTERM)
  exited,                \* process.exit was called, or the process died
  exitCode,              \* its status
  sent,                  \* the ws.send calls, in order: [ws, msg]
  stdout,                \* the process.stdout.write calls, in order: the bytes written
  closeCalls,            \* the ws.close calls, in order: [ws, code]
  stdin,                 \* process.stdin: "readable", "ended" or "errored"
  received,              \* observation: the 'message' events delivered, in order: [ws, payload, stdin]
  arrivals,              \* observation: the number of stdin chunks delivered
  lastArrival,           \* observation: the stdin chunk delivered last, whether a socket was OPEN as it
                         \* arrived, and whether handlers heard it with their socket OPEN
  lastSignal,            \* observation: what the last termination signal did
  schedSinceOpen,        \* observation: timers scheduled since the last 'open' event
  lastOpen,              \* observation: "none" before the first 'open' event, then whether the last one
                         \* found retries used ("retry") or not ("first")
  exitCause              \* observation: which statement ended the process

vars == <<sockets, handshake, errorPending, currentWs, reconnectAttempts, stdinListenersActive,
          stdinHandlers, timers, sigHandlers, exited, exitCode, sent, stdout,
          closeCalls, stdin, received, arrivals, lastArrival, lastSignal,
          schedSinceOpen, lastOpen, exitCause>>

(***************************************************************************)
(* Program constants and the bounds of the model.                          *)
(***************************************************************************)
MAX_RECONNECT_ATTEMPTS == 10

\* connect() calls explored by Spec (the lifecycle without payload traffic)
MaxSockets == 7
\* connect() calls explored by SpecIn (the lifecycle with stdin events)
MaxInSockets == 2
\* connect() calls explored by SpecOut (the lifecycle with socket messages)
MaxOutSockets == 3
\* connect() calls explored by SpecFair (the lifecycle under fair scheduling)
MaxFairSockets == 6
\* stdin chunks delivered in one run
MaxChunks == 2
\* socket messages delivered in one run
MaxMessages == 2
\* termination signals delivered in one run
MaxSignals == 1

\* Bytes are named by strings; "xFF" is a byte that is no valid UTF-8 on its own,
\* "xEF" "xBF" "xBD" is the UTF-8 encoding of U+FFFD, named "uFFFD" as a character.
SP == " "
NL == "\n"

\* stdin chunks the environment delivers (Buffers)
Chunks == { <<SP, NL>>, <<"a", NL>>, <<SP, "a", SP, "b", NL>> }

\* payloads of the socket's message events (Buffers)
Payloads == { <<"a">>, <<"b", SP>>, <<"a", "xFF">> }

(***************************************************************************)
(* Pure functions.                                                         *)
(***************************************************************************)
\* Buffer.prototype.toString(): UTF-8 decoding, one byte at a time here; a byte
\* that is no valid UTF-8 decodes to U+FFFD.
DecodeByte(b) == IF b = "xFF" THEN "uFFFD" ELSE b

toString(buf) == [i \in 1..Len(buf) |-> DecodeByte(buf[i])]

\* The bytes a string is written as (UTF-8).
EncodeChar(c) == IF c = "uFFFD" THEN <<"xEF", "xBF", "xBD">> ELSE <<c>>

RECURSIVE Utf8(_)
Utf8(str) == IF str = <<>> THEN <<>> ELSE EncodeChar(Head(str)) \o Utf8(Tail(str))

IsWhitespace(c) == c \in {SP, NL}

RECURSIVE TrimStart(_)
TrimStart(str) ==
  IF str # <<>> /\ IsWhitespace(Head(str)) THEN TrimStart(Tail(str)) ELSE str

RECURSIVE TrimEnd(_)
TrimEnd(str) ==
  IF str # <<>> /\ IsWhitespace(str[Len(str)])
  THEN TrimEnd(SubSeq(str, 1, Len(str) - 1))
  ELSE str

\* String.prototype.trim()
Trim(str) == TrimEnd(TrimStart(str))

(***************************************************************************)
(* The program state as one record, so that a handler is a function from   *)
(* state to state and handlers compose as the calls in the code do.        *)
(***************************************************************************)
St == [ sockets |-> sockets, currentWs |-> currentWs,
        reconnectAttempts |-> reconnectAttempts,
        stdinListenersActive |-> stdinListenersActive,
        stdinHandlers |-> stdinHandlers, timers |-> timers,
        sigHandlers |-> sigHandlers, exited |-> exited, exitCode |-> exitCode,
        sent |-> sent, stdout |-> stdout, closeCalls |-> closeCalls,
        exitCause |-> exitCause ]

Becomes(st) ==
  /\ sockets' = st.sockets
  /\ currentWs' = st.currentWs
  /\ reconnectAttempts' = st.reconnectAttempts
  /\ stdinListenersActive' = st.stdinListenersActive
  /\ stdinHandlers' = st.stdinHandlers
  /\ timers' = st.timers
  /\ sigHandlers' = st.sigHandlers
  /\ exited' = st.exited
  /\ exitCode' = st.exitCode
  /\ sent' = st.sent
  /\ stdout' = st.stdout
  /\ closeCalls' = st.closeCalls
  /\ exitCause' = st.exitCause

\* process.exit(code): nothing of the program runs afterwards
Exit(st, code, cause) ==
  IF st.exited THEN st
  ELSE [st EXCEPT !.exited = TRUE, !.exitCode = code, !.exitCause = cause]

(***************************************************************************)
(* The ws library's close(code, reason), as far as the program sees it:    *)
(* an OPEN socket starts the closing handshake, a CONNECTING one aborts    *)
(* its handshake; both become CLOSING and emit their events later.         *)
(***************************************************************************)
wsClose(st, w, code) ==
  [st EXCEPT !.closeCalls = Append(@, [ws |-> w, code |-> code]),
             !.sockets[w] = IF @ \in {"OPEN", "CONNECTING"} THEN "CLOSING" ELSE @]

(***************************************************************************)
(* Stdin listeners.                                                        *)
(***************************************************************************)
\* variant of the data handler: sends whatever the readyState of its socket
onStdinDataAnyState(st, w, data) ==
  LET message == Trim(toString(data)) IN
  IF message # <<>>
  THEN [st EXCEPT !.sent = Append(@, [ws |-> w, msg |-> message])]
  ELSE st

\* variant of the data handler: sends the trimmed chunk even when it is empty
onStdinDataAnyText(st, w, data) ==
  LET message == Trim(toString(data)) IN
  IF st.sockets[w] = "OPEN"
  THEN [st EXCEPT !.sent = Append(@, [ws |-> w, msg |-> message])]
  ELSE st

\* process.stdin.on('data', ...) of setupStdinListeners, for the ws it closed over
onStdinData(st, w, data) ==
  LET message == Trim(toString(data)) IN
  IF message # <<>>
  THEN IF st.sockets[w] = "OPEN"
       THEN [st EXCEPT !.sent = Append(@, [ws |-> w, msg |-> message])]
       ELSE st
  ELSE st

\* variant of the end handler: closes its socket, as the line commented out in
\* the handler would
onStdinEndCloses(st, w) ==
  IF st.sockets[w] = "OPEN" THEN wsClose(st, w, 1000) ELSE st

\* process.stdin.on('end', ...): logs only
onStdinEnd(st, w) == st

\* variant of the error handler: calls close whatever the readyState of its socket
onStdinErrorAnyState(st, w) == wsClose(st, w, 1011)

\* process.stdin.on('error', ...)
onStdinError(st, w) ==
  IF st.sockets[w] = "OPEN" THEN wsClose(st, w, 1011) ELSE st

\* variant of the attachment: registers the handlers without looking at the flag
setupStdinListenersUnguarded(st, w) ==
  [st EXCEPT !.stdinHandlers = Append(@, w), !.stdinListenersActive = TRUE]

setupStdinListeners(st, w) ==
  IF st.stdinListenersActive
  THEN st
  ELSE [st EXCEPT !.stdinHandlers = Append(@, w), !.stdinListenersActive = TRUE]

removeStdinListeners(st) ==
  IF ~st.stdinListenersActive
  THEN st
  ELSE [st EXCEPT !.stdinHandlers = <<>>, !.stdinListenersActive = FALSE]

(***************************************************************************)
(* Reconnect scheduling.                                                   *)
(***************************************************************************)
\* variant of scheduleReconnect: gives up without ending the process
scheduleReconnectGivesUp(st) ==
  LET d == removeStdinListeners(st) IN
  IF d.reconnectAttempts < MAX_RECONNECT_ATTEMPTS
  THEN [d EXCEPT !.reconnectAttempts = @ + 1, !.timers = @ + 1]
  ELSE d

\* variant of scheduleReconnect: <= in place of <
scheduleReconnectInclusive(st) ==
  LET d == removeStdinListeners(st) IN
  IF d.reconnectAttempts <= MAX_RECONNECT_ATTEMPTS
  THEN [d EXCEPT !.reconnectAttempts = @ + 1, !.timers = @ + 1]
  ELSE Exit(d, 1, "reconnect")

scheduleReconnect(st) ==
  LET d == removeStdinListeners(st) IN
  IF d.reconnectAttempts < MAX_RECONNECT_ATTEMPTS
  THEN [d EXCEPT !.reconnectAttempts = @ + 1, !.timers = @ + 1]
  ELSE Exit(d, 1, "reconnect")

(***************************************************************************)
(* connect() and the socket's handlers.                                    *)
(***************************************************************************)
\* the body of connect(): a new socket becomes currentWs, and one more
\* listener is registered on each of SIGINT and SIGTERM
connect(st) ==
  [st EXCEPT !.sockets = Append(@, "CONNECTING"),
             !.currentWs = Len(st.sockets) + 1,
             !.sigHandlers = @ + 1]

\* variant of the open handler: the counter is left as it is
onOpenNoReset(st) == setupStdinListeners(st, st.currentWs)

\* currentWs.on('open', ...): reads currentWs when it runs
onOpen(st) ==
  setupStdinListeners([st EXCEPT !.reconnectAttempts = 0], st.currentWs)

\* variant of the message handler: writes the text without the newline
onMessageNoNewline(st, data) ==
  [st EXCEPT !.stdout = Append(@, Utf8(toString(data)))]

\* currentWs.on('message', ...)
onMessage(st, data) ==
  [st EXCEPT !.stdout = Append(@, Utf8(toString(data) \o <<NL>>))]

\* currentWs.on('close', ...)
onClose(st) == scheduleReconnect(st)

\* currentWs.on('error', ...)
onError(st) == scheduleReconnect(st)

(***************************************************************************)
(* Shutdown.                                                               *)
(***************************************************************************)
\* variant of the shutdown handler: exits only when no socket was ever created
gracefulShutdownNeverExits(st) ==
  IF st.currentWs # 0
  THEN wsClose(st, st.currentWs, 1000)
  ELSE Exit(st, 0, "signal")

gracefulShutdown(st) ==
  IF st.currentWs # 0 /\ st.sockets[st.currentWs] \in {"OPEN", "CONNECTING"}
  THEN wsClose(st, st.currentWs, 1000)
  ELSE Exit(st, 0, "signal")

\* One signal runs the n listeners registered for it, in order, until one exits.
RECURSIVE emitSignal(_, _)
emitSignal(st, n) ==
  IF n = 0 \/ st.exited THEN st ELSE emitSignal(gracefulShutdown(st), n - 1)

\* how many of the n listeners ran
RECURSIVE signalRuns(_, _)
signalRuns(st, n) ==
  IF n = 0 \/ st.exited THEN 0 ELSE 1 + signalRuns(gracefulShutdown(st), n - 1)

\* One stdin event runs the handler of every attached handler set, in order.
RECURSIVE emitData(_, _, _)
emitData(st, hs, data) ==
  IF hs = <<>> THEN st ELSE emitData(onStdinData(st, Head(hs), data), Tail(hs), data)

RECURSIVE emitStdinEnd(_, _)
emitStdinEnd(st, hs) ==
  IF hs = <<>> THEN st ELSE emitStdinEnd(onStdinEnd(st, Head(hs)), Tail(hs))

\* An 'error' event nobody listens to is thrown: the process dies with status 1.
RECURSIVE emitStdinError(_, _)
emitStdinError(st, hs) ==
  IF hs = <<>> THEN st ELSE emitStdinError(onStdinError(st, Head(hs)), Tail(hs))

(***************************************************************************)
(* Initial state: the module's top-level code has run, connect() included. *)
(***************************************************************************)
Fresh == [ sockets |-> <<>>, currentWs |-> 0, reconnectAttempts |-> 0,
           stdinListenersActive |-> FALSE, stdinHandlers |-> <<>>, timers |-> 0,
           sigHandlers |-> 0, exited |-> FALSE, exitCode |-> 0,
           sent |-> <<>>, stdout |-> <<>>, closeCalls |-> <<>>,
           exitCause |-> "none" ]

Start == connect(Fresh)

NoArrival == [chunk |-> <<>>, anyOpen |-> FALSE, heard |-> "nobody"]

NoSignal == [n |-> 0, open |-> FALSE, ws |-> 0, runs |-> 0, closes |-> 0]

Init ==
  /\ sockets = Start.sockets
  /\ currentWs = Start.currentWs
  /\ reconnectAttempts = Start.reconnectAttempts
  /\ stdinListenersActive = Start.stdinListenersActive
  /\ stdinHandlers = Start.stdinHandlers
  /\ timers = Start.timers
  /\ sigHandlers = Start.sigHandlers
  /\ exited = Start.exited
  /\ exitCode = Start.exitCode
  /\ sent = Start.sent
  /\ stdout = Start.stdout
  /\ closeCalls = Start.closeCalls
  /\ exitCause = Start.exitCause
  /\ handshake = {1}
  /\ errorPending = {}
  /\ stdin = "readable"
  /\ received = <<>>
  /\ arrivals = 0
  /\ lastArrival = NoArrival
  /\ lastSignal = NoSignal
  /\ schedSinceOpen = 0
  /\ lastOpen = "none"

(***************************************************************************)
(* Actions: one per event the event loop delivers.  The socket events are  *)
(* those of the ws library: a handshake that fails (or is aborted by a     *)
(* close call) emits 'error' and then 'close' in one go; an established    *)
(* socket that fails emits 'error' at once and 'close' later; a socket     *)
(* closed by the remote or by a close call emits 'close' alone.            *)
(***************************************************************************)
Ws == 1..Len(sockets)

\* the socket s completes its handshake
WsOpen(s) ==
  /\ ~exited
  /\ sockets[s] = "CONNECTING"
  /\ Becomes(onOpen([St EXCEPT !.sockets[s] = "OPEN"]))
  /\ handshake' = handshake \ {s}
  /\ schedSinceOpen' = 0
  /\ lastOpen' = IF reconnectAttempts > 0 THEN "retry" ELSE "first"
  /\ UNCHANGED <<errorPending, stdin, received, arrivals, lastArrival, lastSignal>>

\* the socket s delivers a message
WsMessage(s, data) ==
  /\ ~exited
  /\ sockets[s] = "OPEN"
  /\ Len(received) < MaxMessages
  /\ Becomes(onMessage(St, data))
  /\ received' = Append(received, [ws |-> s, payload |-> data, stdin |-> stdin])
  /\ UNCHANGED <<handshake, errorPending, stdin, arrivals, lastArrival, lastSignal,
                 schedSinceOpen, lastOpen>>

\* the handshake of s fails: 'error' and then 'close', unless the error
\* handler ends the process
WsFail(s) ==
  /\ ~exited
  /\ s \in handshake
  /\ LET a  == onError([St EXCEPT !.sockets[s] = "CLOSING"])
         st == IF a.exited THEN a ELSE onClose([a EXCEPT !.sockets[s] = "CLOSED"])
     IN /\ Becomes(st)
        /\ schedSinceOpen' = schedSinceOpen + (st.timers - timers)
  /\ handshake' = handshake \ {s}
  /\ UNCHANGED <<errorPending, stdin, received, arrivals, lastArrival, lastSignal, lastOpen>>

\* the established socket s fails: 'error' now, 'close' later
WsError(s) ==
  /\ ~exited
  /\ s \notin handshake
  /\ sockets[s] \in {"OPEN", "CLOSING"}
  /\ s \notin errorPending
  /\ LET st == onError([St EXCEPT !.sockets[s] = "CLOSING"]) IN
       /\ Becomes(st)
       /\ schedSinceOpen' = schedSinceOpen + (st.timers - timers)
  /\ errorPending' = errorPending \cup {s}
  /\ UNCHANGED <<handshake, stdin, received, arrivals, lastArrival, lastSignal, lastOpen>>

\* the established socket s is closed: by the remote, after its failure or
\* after a close call
WsClose(s) ==
  /\ ~exited
  /\ s \notin handshake
  /\ sockets[s] \in {"OPEN", "CLOSING"}
  /\ LET st == onClose([St EXCEPT !.sockets[s] = "CLOSED"]) IN
       /\ Becomes(st)
       /\ schedSinceOpen' = schedSinceOpen + (st.timers - timers)
  /\ errorPending' = errorPending \ {s}
  /\ UNCHANGED <<handshake, stdin, received, arrivals, lastArrival, lastSignal, lastOpen>>

\* a reconnect timer fires and calls connect()
TimerConnect(bound) ==
  /\ ~exited
  /\ timers > 0
  /\ Len(sockets) < bound
  /\ Becomes(connect([St EXCEPT !.timers = @ - 1]))
  /\ handshake' = handshake \cup {Len(sockets) + 1}
  /\ UNCHANGED <<errorPending, stdin, received, arrivals, lastArrival, lastSignal,
                 schedSinceOpen, lastOpen>>

\* SIGINT or SIGTERM arrives: each has the same listeners
Signal ==
  /\ ~exited
  /\ lastSignal.n < MaxSignals
  /\ Becomes(emitSignal(St, sigHandlers))
  /\ lastSignal' = [ n |-> lastSignal.n + 1,
                     open |-> sockets[currentWs] = "OPEN",
                     ws |-> currentWs,
                     runs |-> signalRuns(St, sigHandlers),
                     closes |-> Len(closeCalls') - Len(closeCalls) ]
  /\ UNCHANGED <<handshake, errorPending, stdin, received, arrivals, lastArrival,
                 schedSinceOpen, lastOpen>>

\* a chunk arrives on stdin
StdinData(data) ==
  /\ ~exited
  /\ stdin = "readable"
  /\ arrivals < MaxChunks
  /\ Becomes(emitData(St, stdinHandlers, data))
  /\ arrivals' = arrivals + 1
  /\ lastArrival' = [ chunk |-> data,
                      anyOpen |-> \E s \in Ws : sockets[s] = "OPEN",
                      heard |-> IF stdinHandlers = <<>> THEN "nobody"
                                ELSE IF \A i \in 1..Len(stdinHandlers) :
                                          sockets[stdinHandlers[i]] = "OPEN"
                                     THEN "open" ELSE "notopen" ]
  /\ UNCHANGED <<handshake, errorPending, stdin, received, lastSignal,
                 schedSinceOpen, lastOpen>>

\* stdin reaches its end
StdinEnd ==
  /\ ~exited
  /\ stdin = "readable"
  /\ Becomes(emitStdinEnd(St, stdinHandlers))
  /\ stdin' = "ended"
  /\ UNCHANGED <<handshake, errorPending, received, arrivals, lastArrival, lastSignal,
                 schedSinceOpen, lastOpen>>

\* stdin fails
StdinError ==
  /\ ~exited
  /\ stdin = "readable"
  /\ Becomes(IF stdinHandlers = <<>>
             THEN Exit(St, 1, "uncaught")
             ELSE emitStdinError(St, stdinHandlers))
  /\ stdin' = "errored"
  /\ UNCHANGED <<handshake, errorPending, received, arrivals, lastArrival, lastSignal,
                 schedSinceOpen, lastOpen>>

Sockets(bound) ==
  \/ \E s \in Ws : WsOpen(s)
  \/ \E s \in Ws : WsFail(s)
  \/ \E s \in Ws : WsError(s)
  \/ \E s \in Ws : WsClose(s)
  \/ TimerConnect(bound)

\* the connection lifecycle and the signals, without traffic
Next ==
  \/ Sockets(MaxSockets)
  \/ Signal

Spec == Init /\ [][Next]_vars

\* a pending handshake ends: the server accepts it, or it fails
HandshakeEnds == \E s \in Ws : WsOpen(s) \/ WsFail(s)

\* the lifecycle under the event loop's scheduling: a timer that was set fires,
\* and a connection attempt ends one way or the other
NextFair ==
  \/ Sockets(MaxFairSockets)
  \/ Signal

SpecFair ==
  /\ Init /\ [][NextFair]_vars
  /\ WF_vars(TimerConnect(MaxFairSockets))
  /\ WF_vars(HandshakeEnds)

\* the lifecycle with the stdin events
NextIn ==
  \/ Sockets(MaxInSockets)
  \/ Signal
  \/ \E data \in Chunks : StdinData(data)
  \/ StdinEnd
  \/ StdinError

SpecIn == Init /\ [][NextIn]_vars

\* the lifecycle with the socket's messages
NextOut ==
  \/ Sockets(MaxOutSockets)
  \/ \E s \in Ws : \E data \in Payloads : WsMessage(s, data)

SpecOut == Init /\ [][NextOut]_vars

\* the lifecycle with the socket's messages and the end of stdin
NextDuplex ==
  \/ NextOut
  \/ StdinEnd

SpecDuplex == Init /\ [][NextDuplex]_vars

(***************************************************************************)
(* Steps of the socket events, recognised from the state change.           *)
(***************************************************************************)
OpenStep(s)  == sockets[s] = "CONNECTING" /\ sockets'[s] = "OPEN"
FailStep(s)  == s \in handshake /\ s \notin handshake' /\ sockets'[s] # "OPEN"
ErrorStep(s) == s \notin errorPending /\ s \in errorPending'
CloseStep(s) == s \notin handshake /\ sockets[s] # "CLOSED" /\ sockets'[s] = "CLOSED"

\* a step in which scheduleReconnect runs
TriggerStep == \E s \in Ws : FailStep(s) \/ ErrorStep(s) \/ CloseStep(s)

\* a step in which a stdin chunk is delivered
ArrivalStep == arrivals' = arrivals + 1

\* the text of the stdin chunk delivered last
ArrivedText(a) == Trim(toString(a.chunk))

\* a payload that is valid UTF-8, so that its text encodes back to itself
IsText(payload) == \A i \in 1..Len(payload) : payload[i] # "xFF"

(***************************************************************************)
(* C1: whenever the active socket (currentWs) is Open, a stdin chunk whose  *)
(* trimmed text is not empty is sent as exactly one message, the trimmed    *)
(* text, on that socket.                                                    *)
(***************************************************************************)
C1_ForwardedWhenOpen ==
  [][ ( /\ ArrivalStep
        /\ currentWs # 0
        /\ sockets[currentWs] = "OPEN"
        /\ ArrivedText(lastArrival') # <<>> )
      => sent' = Append(sent, [ws |-> currentWs, msg |-> ArrivedText(lastArrival')])
    ]_vars

(***************************************************************************)
(* C2, as stated: every message event results in exactly one write, the     *)
(* payload unchanged followed by one newline, in arrival order.             *)
(***************************************************************************)
C2_PayloadUnchanged ==
  /\ Len(stdout) = Len(received)
  /\ \A i \in 1..Len(received) : stdout[i] = received[i].payload \o <<NL>>

(***************************************************************************)
(* C2, amended: every message event results in exactly one write, in        *)
(* arrival order, and the write is the payload unchanged followed by one    *)
(* newline whenever the payload is valid UTF-8 text.                        *)
(***************************************************************************)
C2_TextPayloadUnchanged ==
  /\ Len(stdout) = Len(received)
  /\ \A i \in 1..Len(received) :
       IsText(received[i].payload) => stdout[i] = received[i].payload \o <<NL>>

\* two different text messages of one socket have been written
C2_Witness ==
  /\ Len(received) = 2
  /\ received[1].ws = received[2].ws
  /\ received[1].payload # received[2].payload
  /\ IsText(received[1].payload) /\ IsText(received[2].payload)

(***************************************************************************)
(* C3: reconnectAttempts stays within 0..MAX_RECONNECT_ATTEMPTS, and a      *)
(* reconnect trigger that finds it at MAX_RECONNECT_ATTEMPTS ends the       *)
(* process with status 1, schedules no timer and creates no socket.         *)
(***************************************************************************)
C3_AttemptsBounded ==
  /\ [](reconnectAttempts \in 0..MAX_RECONNECT_ATTEMPTS)
  /\ [][ (TriggerStep /\ reconnectAttempts = MAX_RECONNECT_ATTEMPTS)
         => /\ exited' /\ exitCode' = 1 /\ exitCause' = "reconnect"
            /\ timers' = timers
            /\ Len(sockets') = Len(sockets) ]_vars

\* a trigger found the attempts used up
C3_Witness ==
  exited /\ exitCause = "reconnect" /\ reconnectAttempts = MAX_RECONNECT_ATTEMPTS

(***************************************************************************)
(* C4: after N consecutive transport failures, N < MAX_RECONNECT_ATTEMPTS,  *)
(* with no success and no termination signal (N is then the number of       *)
(* sockets whose handshake is over), the counter is N, exactly N reconnects *)
(* were scheduled (timers pending or fired) and the process has not exited. *)
(***************************************************************************)
C4_OneRetryPerFailure ==
  LET N == Len(sockets) - Cardinality(handshake) IN
  (lastOpen = "none" /\ lastSignal.n = 0 /\ N < MAX_RECONNECT_ATTEMPTS)
  => /\ ~exited
     /\ reconnectAttempts = N
     /\ timers + (Len(sockets) - 1) = N

(***************************************************************************)
(* C5: when no connection attempt ever opens, the process exits with        *)
(* status 1 having carried out exactly MAX_RECONNECT_ATTEMPTS timer-driven  *)
(* connect() calls, and none is still scheduled.                            *)
(***************************************************************************)
C5_ExitAfterMaxAttempts ==
  (exited /\ exitCause = "reconnect" /\ lastOpen = "none")
  => /\ exitCode = 1
     /\ Len(sockets) - 1 = MAX_RECONNECT_ATTEMPTS
     /\ timers = 0

(***************************************************************************)
(* C6: an open event sets reconnectAttempts to 0; the counter is the number *)
(* of reconnects scheduled since the last open event, so the process exits  *)
(* for want of attempts only after MAX_RECONNECT_ATTEMPTS reconnects were   *)
(* scheduled since that event, whatever was used before it.                 *)
(***************************************************************************)
C6_OpenResetsCounter ==
  /\ [](reconnectAttempts = schedSinceOpen)
  /\ [](exitCause = "reconnect" => schedSinceOpen = MAX_RECONNECT_ATTEMPTS)
  /\ [][ (\E s \in Ws : OpenStep(s)) => reconnectAttempts' = 0 ]_vars

\* failures, a success with retries used, and then failures until the exit
C6_Witness ==
  exited /\ exitCause = "reconnect" /\ lastOpen = "retry"

(***************************************************************************)
(* C7: after a termination signal received while the active socket is Open, *)
(* the close event of that socket makes the process exit with status 0 and  *)
(* schedules no reconnect.                                                  *)
(***************************************************************************)
C7_ShutdownExitsZero ==
  [][ \A s \in Ws :
        ( /\ CloseStep(s)
          /\ lastSignal.n > 0 /\ lastSignal.open /\ lastSignal.ws = s )
        => /\ exited' /\ exitCode' = 0
           /\ timers' = timers
           /\ reconnectAttempts' = reconnectAttempts ]_vars

(***************************************************************************)
(* C8: a termination signal received while the active socket is Open runs   *)
(* the shutdown routine once and issues one close call, with code 1000 on   *)
(* that socket, however many connect() calls came before.                   *)
(***************************************************************************)
C8_ShutdownRunsOnce ==
  (lastSignal.n > 0 /\ lastSignal.open)
  => /\ lastSignal.runs = 1
     /\ lastSignal.closes = 1
     /\ closeCalls[Len(closeCalls)] = [ws |-> lastSignal.ws, code |-> 1000]

(***************************************************************************)
(* C9: messages are sent only in the step a stdin chunk arrives, they carry *)
(* that chunk's text and go to sockets that are Open as it arrives; so a    *)
(* chunk that arrives while no socket is Open is never sent, then or later. *)
(***************************************************************************)
C9_DroppedForGood ==
  [][ sent' # sent
      => /\ ArrivalStep
         /\ Len(sent') > Len(sent)
         /\ SubSeq(sent', 1, Len(sent)) = sent
         /\ \A i \in (Len(sent) + 1)..Len(sent') :
              /\ sockets[sent'[i].ws] = "OPEN"
              /\ sent'[i].msg = ArrivedText(lastArrival') ]_vars

\* a chunk with text reached the handlers while no socket was Open, a later
\* socket is Open now, and nothing has been sent
C9_Witness ==
  /\ arrivals > 0
  /\ ArrivedText(lastArrival) # <<>>
  /\ lastArrival.heard = "notopen"
  /\ ~lastArrival.anyOpen
  /\ sent = <<>>
  /\ \E s \in Ws : sockets[s] = "OPEN" /\ stdinHandlers = <<s>>

(***************************************************************************)
(* C10: a stdin chunk whose trimmed text is empty causes no send call.      *)
(***************************************************************************)
C10_EmptyNeverForwarded ==
  [][ (ArrivalStep /\ ArrivedText(lastArrival') = <<>>) => sent' = sent ]_vars

\* a whitespace-only chunk reached the handlers of an Open socket, after a
\* chunk with text had been sent
C10_Witness ==
  /\ arrivals > 1
  /\ lastArrival.chunk # <<>>
  /\ ArrivedText(lastArrival) = <<>>
  /\ lastArrival.heard = "open"
  /\ Len(sent) = 1

\* a step in which the stdin error event is delivered
StdinErrorStep == stdin = "readable" /\ stdin' = "errored"

SignalStep == lastSignal'.n = lastSignal.n + 1

\* no socket is connecting or open
NoLiveSocket == \A s \in Ws : sockets[s] \notin {"CONNECTING", "OPEN"}

(***************************************************************************)
(* C12: a termination signal delivered when no socket is CONNECTING or OPEN *)
(* ends the process with status 0 in that step, calls close on no socket    *)
(* and leaves the sockets as they are; after the exit no socket is created  *)
(* and no timer fires.                                                      *)
(***************************************************************************)
C12_IdleSignalExits ==
  /\ [][ (SignalStep /\ NoLiveSocket)
         => /\ exited' /\ exitCode' = 0 /\ exitCause' = "signal"
            /\ closeCalls' = closeCalls
            /\ sockets' = sockets
            /\ timers' = timers ]_vars
  /\ [][ exited => (sockets' = sockets /\ timers' = timers) ]_vars

\* the signal arrived while a reconnect timer was pending, and ended the process
C12_Witness ==
  /\ exited /\ exitCode = 0
  /\ lastSignal.n = 1 /\ lastSignal.closes = 0
  /\ timers > 0
  /\ NoLiveSocket

(***************************************************************************)
(* C13, as stated: the process exits with status 1 only from a reconnect    *)
(* trigger that finds the attempts used up, with status 0 only from a       *)
(* termination signal, and never with status 1 once a termination signal    *)
(* has been received.                                                       *)
(***************************************************************************)
C13_ExitCodes ==
  exited =>
    /\ exitCode \in {0, 1}
    /\ exitCode = 1 => (exitCause = "reconnect" /\ lastSignal.n = 0)
    /\ exitCode = 0 => exitCause = "signal"

(***************************************************************************)
(* C14, as stated: the stdin handlers are attached only while the active    *)
(* socket is OPEN; stdinListenersActive is FALSE whenever the active socket *)
(* is CONNECTING, CLOSING or CLOSED.                                        *)
(***************************************************************************)
C14_AttachedOnlyWhenOpen ==
  stdinListenersActive => (currentWs # 0 /\ sockets[currentWs] = "OPEN")

(***************************************************************************)
(* C15: attaching and detaching are idempotent.  In every reachable state   *)
(* stdin carries one set of handlers when stdinListenersActive is TRUE and  *)
(* none when it is FALSE; attaching a second time changes nothing, and so   *)
(* does detaching a second time; a chunk delivered to stdin is sent at most *)
(* once, and once when it has text and the handlers' socket is OPEN.        *)
(***************************************************************************)
C15_AttachDetachIdempotent ==
  /\ Len(stdinHandlers) = (IF stdinListenersActive THEN 1 ELSE 0)
  /\ \A w \in Ws :
       setupStdinListeners(setupStdinListeners(St, w), w) = setupStdinListeners(St, w)
  /\ removeStdinListeners(removeStdinListeners(St)) = removeStdinListeners(St)
  /\ removeStdinListeners(St).stdinHandlers = <<>>
  /\ \A data \in Chunks :
       LET after == emitData(St, stdinHandlers, data) IN
       Len(after.sent) = Len(sent) +
         (IF /\ stdinHandlers # <<>>
             /\ sockets[stdinHandlers[1]] = "OPEN"
             /\ Trim(toString(data)) # <<>>
          THEN 1 ELSE 0)

\* socket 3 opened while the handlers attached at the open event of socket 2 were
\* still in place: the second attachment changed nothing
C15_Witness ==
  /\ Len(sockets) >= 3
  /\ sockets[2] = "OPEN" /\ sockets[3] = "OPEN"
  /\ currentWs = 3
  /\ stdinListenersActive
  /\ stdinHandlers = <<2>>

(***************************************************************************)
(* C16, as stated: the close or error event of a socket that is no longer   *)
(* currentWs changes nothing of the reconnection state: reconnectAttempts   *)
(* and the pending timers stay as they are, the process does not exit, and  *)
(* the stdin handlers stay attached.                                        *)
(***************************************************************************)
C16_StaleEventsIgnored ==
  [][ \A s \in Ws :
        (s # currentWs /\ (FailStep(s) \/ ErrorStep(s) \/ CloseStep(s)))
        => /\ reconnectAttempts' = reconnectAttempts
           /\ timers' = timers
           /\ exited' = exited
           /\ stdinHandlers' = stdinHandlers
           /\ stdinListenersActive' = stdinListenersActive ]_vars

\* the sockets that are connecting or open
LiveSockets == { s \in Ws : sockets[s] \in {"CONNECTING", "OPEN"} }

\* a step in which a reconnect timer fires and runs connect()
TimerStep == Len(sockets') = Len(sockets) + 1

(***************************************************************************)
(* C17, as stated: at most one socket is CONNECTING or OPEN, at most one    *)
(* reconnect timer is pending, and connect() is never run while a socket is *)
(* CONNECTING or OPEN.                                                      *)
(***************************************************************************)
C17_SingleInFlight ==
  /\ [](Cardinality(LiveSockets) <= 1)
  /\ [](timers <= 1)
  /\ [][ TimerStep => LiveSockets = {} ]_vars

(***************************************************************************)
(* C18, as stated: whenever a reconnect timer fires and runs connect(),     *)
(* stdinListenersActive is FALSE and stdin carries no forwarding handlers.  *)
(***************************************************************************)
C18_DetachedAtReconnect ==
  [][ TimerStep => (~stdinListenersActive /\ stdinHandlers = <<>>) ]_vars

\* a step in which the stdin end event is delivered
StdinEndStep == stdin = "readable" /\ stdin' = "ended"

\* a step in which a socket delivers a message
MessageStep == Len(received') = Len(received) + 1

(***************************************************************************)
(* C19: the stdin end event changes nothing: the sockets, currentWs,        *)
(* reconnectAttempts, the attachment flag and handlers and the pending      *)
(* timers stay as they are, no close and no send is called and the process  *)
(* does not exit; a message delivered by a socket after the end of stdin is *)
(* still written to stdout.                                                 *)
(***************************************************************************)
C19_StdinEndChangesNothing ==
  /\ [][ StdinEndStep
         => UNCHANGED <<sockets, currentWs, reconnectAttempts, stdinListenersActive,
                        stdinHandlers, timers, closeCalls, sent, stdout,
                        exited, exitCode>> ]_vars
  /\ [][ (MessageStep /\ stdin = "ended")
         => LET data == received'[Len(received')].payload IN
            /\ Len(stdout') = Len(stdout) + 1
            /\ SubSeq(stdout', 1, Len(stdout)) = stdout
            /\ IsText(data) => stdout'[Len(stdout')] = data \o <<NL>> ]_vars

\* stdin ended while the only socket was open and the handlers were attached, and
\* a message delivered afterwards was written
C19_Witness ==
  /\ stdin = "ended"
  /\ sockets = <<"OPEN">>
  /\ stdinHandlers = <<1>>
  /\ Len(received) = 2 /\ Len(stdout) = 2
  /\ received[1].stdin = "readable"
  /\ received[2].stdin = "ended"

(***************************************************************************)
(* C20, as stated: whenever the stdin handlers are attached, the socket     *)
(* they send to is currentWs and has opened; they are never bound to a      *)
(* socket that is still CONNECTING or that a later connect() superseded.    *)
(***************************************************************************)
C20_HandlersBoundToCurrent ==
  \A i \in 1..Len(stdinHandlers) :
    /\ stdinHandlers[i] = currentWs
    /\ stdinHandlers[i] \notin handshake

\* the sockets from which an open, close or error event is still to come
PendingSockets == { s \in Ws : sockets[s] \in {"CONNECTING", "OPEN", "CLOSING"} }

(***************************************************************************)
(* C21: the relay never gets stuck.  In every reachable state in which the  *)
(* process has not exited, some socket is CONNECTING, OPEN or CLOSING or a  *)
(* reconnect timer is pending; and, when timers fire and handshakes end, a  *)
(* run in which no socket ever opens reaches the exit of the process.       *)
(***************************************************************************)
C21_NeverStuck ==
  /\ [](~exited => (PendingSockets # {} \/ timers > 0))
  /\ <>(exited \/ lastOpen # "none")

\* no connection attempt was accepted, no signal arrived, and the process ended
\* when the attempts were used up
C21_Witness ==
  /\ exited /\ exitCode = 1
  /\ lastOpen = "none"
  /\ lastSignal.n = 0
  /\ reconnectAttempts = MAX_RECONNECT_ATTEMPTS
  /\ PendingSockets # {}

====
